---- MODULE Spec2Model ----
(***************************************************************************)
(* LCD1602 I2C character-display driver of weighing_machine.py             *)
(* (class LCD1602) and the part of WeighingMachine that creates it.        *)
(*                                                                         *)
(* A driver call is executed one statement at a time: a call action        *)
(* computes the bus writes and sleeps the method's code performs, in       *)
(* order, and the Step actions execute them one by one.  Every             *)
(* bus.write_byte may succeed or raise; a raise unwinds the call.          *)
(* Times are in microseconds.                                              *)
(***************************************************************************)
EXTENDS Integers, Sequences, FiniteSets, TLC

VARIABLES
    address,    \* LCD1602.address: peripheral address given to the constructor
    backlight,  \* LCD1602.backlight: 0x08 or 0x00, OR-ed into every bus word
    lcd,        \* WeighingMachine.lcd: "None" until LCD1602(...) has returned
    op,         \* the driver call in progress, or the last one made
    result,     \* "none" (no call yet) | "running" | "ok" | "OSError" |
                \* "IndexError" (how the call ended) | "idle" (the caller
                \* has taken the outcome and is between calls)
    todo,       \* statements of the call in progress still to execute
    bus,        \* bus.write_byte calls attempted by that call, in order
    since,      \* time slept since the caller's last bus write, whether
                \* that write completed the clear-display command, which of
                \* the writes of _write_four_bits / _pulse_enable it was
                \* (1, 2, 3) if it succeeded, 0 if it failed or was a bare
                \* backlight write
    ctl,        \* the peripheral: the I2C expander's output bits and the
                \* display controller's nibble framing
    other,      \* a second caller using the same LCD1602 object: the
                \* statements of its call still to execute, and whether
                \* calls of the two callers have ever overlapped
    run,        \* WeighingMachine.run(): the statement it is at, the weight
                \* of the current polling tick, and how it has ended
    hook        \* WeighingMachineWithWebhook.run(): the statement it is at,
                \* the clock, and the webhook fields and attempts

vars ==
    <<address, backlight, lcd, op, result, todo, bus, since, ctl, other,
      run, hook>>

----------------------------------------------------------------------------
(* Bounds of the model. *)

\* print() texts are all strings over Chars of at most MaxTextLen characters
MaxTextLen == 2
\* set_cursor()/print() columns range over -1..MaxCol
MaxCol == 16
\* set_cursor()/print() rows range over -3..MaxRow
MaxRow == 2
\* the clock of the webhook loop stops at MaxTime (units of UPDATE_INTERVAL)
MaxTime == 46

----------------------------------------------------------------------------
(* Python integer operators (unbounded two's complement). *)

RECURSIVE BitAnd(_, _)
BitAnd(a, b) ==
    IF a = 0 \/ b = 0 THEN 0
    ELSE IF a = -1 THEN b
    ELSE IF b = -1 THEN a
    ELSE 2 * BitAnd(a \div 2, b \div 2) + (a % 2) * (b % 2)

RECURSIVE BitOr(_, _)
BitOr(a, b) ==
    IF a = 0 THEN b
    ELSE IF b = 0 THEN a
    ELSE IF a = -1 \/ b = -1 THEN -1
    ELSE 2 * BitOr(a \div 2, b \div 2)
         + (IF a % 2 = 1 \/ b % 2 = 1 THEN 1 ELSE 0)

BitNot(a) == -a - 1

\* list[i] of a Python list: negative indices count from the end
PyIndexOk(list, i) == i < Len(list) /\ -i <= Len(list)
PyIndex(list, i) == IF i >= 0 THEN list[i + 1] ELSE list[Len(list) + i + 1]

----------------------------------------------------------------------------
(* Constants of class LCD1602 and of the configuration section. *)

LCD_CLEAR == 1
LCD_ENTRY_MODE == 4
LCD_DISPLAY_CONTROL == 8
LCD_FUNCTION_SET == 32
LCD_SET_DDRAM == 128
LCD_DISPLAY_ON == 4
LCD_CURSOR_OFF == 0
LCD_BLINK_OFF == 0
LCD_2LINE == 8
LCD_5x8DOTS == 0
LCD_BACKLIGHT == 8
ENABLE == 4
LCD_I2C_ADDRESS == 39

row_offsets == <<0, 64>>

----------------------------------------------------------------------------
(* Inputs of the calls. *)

\* character codes (ord) of the print() texts: 'K' and U+0141, a character
\* whose code does not fit a byte
Chars == {75, 321}
\* "Weight: 12.3kg"
ScenarioText == <<87, 101, 105, 103, 104, 116, 58, 32, 49, 50, 46, 51, 107, 103>>
Texts == UNION {[1..n -> Chars] : n \in 0..MaxTextLen} \cup {ScenarioText}
Cols == -1..MaxCol
Rows == -3..MaxRow
\* columns print() is called with
PrintCols == {-1, 0, 5, MaxCol - 1, MaxCol}
\* arguments print() is called with: the scenario text at (0, 1), the
\* other texts at every column of PrintCols and every row
PrintArgs ==
    {x \in Texts \X PrintCols \X Rows :
        x[1] = ScenarioText => (x[2] = 0 /\ x[3] = 1)}
\* "Common addresses: 0x27 or 0x3F"
Addresses == {LCD_I2C_ADDRESS, 63}

\* bytes and modes _write_byte is called with directly
Bytes256 == 0..255
Modes == {0, 1}

\* a call: text, col, row are the arguments of print/set_cursor, data and
\* mode those of _write_byte
Call(name, text, col, row) ==
    [name |-> name, text |-> text, col |-> col, row |-> row, data |-> 0, mode |-> 0]
CallByte(data, mode) ==
    [name |-> "_write_byte", text |-> <<>>, col |-> 0, row |-> 0,
     data |-> data, mode |-> mode]
NoOp == Call("none", <<>>, 0, 0)

----------------------------------------------------------------------------
(* Statements of the driver methods.  A statement is a bus write (k = "w":   *)
(* d is the method's data argument, ph the write of _write_four_bits /       *)
(* _pulse_enable it is, 0 for the bare backlight write) or a time.sleep      *)
(* (k = "s": d is the time).  by names the statement of the public method    *)
(* that issued it, half is 1 for the high nibble of _write_byte, 2 for the   *)
(* low nibble, 0 outside _write_byte; i is its position in the call.         *)

W(d, by, half, ph) == [k |-> "w", d |-> d, by |-> by, half |-> half, ph |-> ph, i |-> 0]
S(us) == [k |-> "s", d |-> us, by |-> "sleep", half |-> 0, ph |-> 0, i |-> 0]

\* BusWord with the backlight bit left out of the first write of a nibble
BusWord_NoBacklight(d, ph, bl) ==
    CASE ph = 0 -> bl
      [] ph = 1 -> d
      [] ph = 2 -> BitOr(BitOr(d, ENABLE), bl)
      [] ph = 3 -> BitOr(BitAnd(d, BitNot(ENABLE)), bl)

\* the word placed on the bus by each bus.write_byte of the driver
BusWord(d, ph, bl) ==
    CASE ph = 0 -> bl
      [] ph = 1 -> BitOr(d, bl)
      [] ph = 2 -> BitOr(BitOr(d, ENABLE), bl)
      [] ph = 3 -> BitOr(BitAnd(d, BitNot(ENABLE)), bl)

\* _pulse_enable without the hold after the enable-low write
pulse_enable_NoHold(data, by, half) ==
    <<W(data, by, half, 2), S(100), W(data, by, half, 3)>>

pulse_enable(data, by, half) ==
    <<W(data, by, half, 2), S(100), W(data, by, half, 3), S(100)>>

write_four_bits(data, by, half) ==
    <<W(data, by, half, 1)>> \o pulse_enable(data, by, half)

high_bits(data, mode) == BitOr(mode, BitAnd(data, 240))

\* low_bits without the shift
low_bits_NoShift(data, mode) == BitOr(mode, BitAnd(data, 240))

low_bits(data, mode) == BitOr(mode, BitAnd(data * 16, 240))

\* write_byte sending the low nibble first
write_byte_LowFirst(data, mode, by) ==
    write_four_bits(low_bits(data, mode), by, 2)
    \o write_four_bits(high_bits(data, mode), by, 1)

write_byte(data, mode, by) ==
    write_four_bits(high_bits(data, mode), by, 1)
    \o write_four_bits(low_bits(data, mode), by, 2)

\* clear with a delay of 1 ms
clear_ShortDelay == write_byte(LCD_CLEAR, 0, "clear") \o <<S(1000)>>

clear == write_byte(LCD_CLEAR, 0, "clear") \o <<S(2000)>>

\* cursor_data with the row offset left out
cursor_data_NoRow(col, row) == BitOr(LCD_SET_DDRAM, col)

cursor_data(col, row) == BitOr(LCD_SET_DDRAM, col + PyIndex(row_offsets, row))

set_cursor(col, row) == write_byte(cursor_data(col, row), 0, "set_cursor")

RECURSIVE print_chars(_)
print_chars(text) ==
    IF text = <<>> THEN <<>>
    ELSE write_byte(Head(text), 1, "char") \o print_chars(Tail(text))

\* print that sets the cursor again before every character
RECURSIVE print_Readdressing(_, _, _)
print_Readdressing(text, col, row) ==
    IF text = <<>> THEN set_cursor(col, row)
    ELSE set_cursor(col, row) \o write_byte(Head(text), 1, "char")
         \o (IF Tail(text) = <<>> THEN <<>>
             ELSE print_Readdressing(Tail(text), col + 1, row))

print(text, col, row) == set_cursor(col, row) \o print_chars(text)

\* the handshake with the first settle delay cut to 1 ms
handshake_ShortSettle ==
    <<S(50000)>>
    \o write_four_bits(3 * 16, "reset1", 0)
    \o <<S(1000)>>
    \o write_four_bits(3 * 16, "reset2", 0)
    \o <<S(1000)>>
    \o write_four_bits(3 * 16, "reset3", 0)
    \o write_four_bits(2 * 16, "fourbit", 0)

\* LCD1602.__init__, lines 73-79: the 4-bit handshake
handshake ==
    <<S(50000)>>
    \o write_four_bits(3 * 16, "reset1", 0)
    \o <<S(5000)>>
    \o write_four_bits(3 * 16, "reset2", 0)
    \o <<S(1000)>>
    \o write_four_bits(3 * 16, "reset3", 0)
    \o write_four_bits(2 * 16, "fourbit", 0)

\* the configuration with the entry mode set before the display is cleared
configure_Reordered ==
    write_byte(BitOr(BitOr(LCD_FUNCTION_SET, LCD_2LINE), LCD_5x8DOTS), 0, "function_set")
    \o write_byte(BitOr(BitOr(BitOr(LCD_DISPLAY_CONTROL, LCD_DISPLAY_ON),
                              LCD_CURSOR_OFF), LCD_BLINK_OFF), 0, "display_control")
    \o write_byte(BitOr(LCD_ENTRY_MODE, 2), 0, "entry_mode")
    \o clear
    \o <<S(2000)>>

\* LCD1602.__init__, lines 81-93: the configuration commands
configure ==
    write_byte(BitOr(BitOr(LCD_FUNCTION_SET, LCD_2LINE), LCD_5x8DOTS), 0, "function_set")
    \o write_byte(BitOr(BitOr(BitOr(LCD_DISPLAY_CONTROL, LCD_DISPLAY_ON),
                              LCD_CURSOR_OFF), LCD_BLINK_OFF), 0, "display_control")
    \o clear
    \o write_byte(BitOr(LCD_ENTRY_MODE, 2), 0, "entry_mode")
    \o <<S(2000)>>

\* LCD1602.__init__ after the bus is opened
init == handshake \o configure

\* the backlight write done as a nibble write with its enable pulse
backlight_write_Pulsed == write_four_bits(0, "backlight", 0)

backlight_write == <<W(0, "backlight", 0, 0)>>

Numbered(stmts) == [j \in 1..Len(stmts) |-> [stmts[j] EXCEPT !.i = j]]

----------------------------------------------------------------------------
(* Exceptions.  No driver method and no statement of __init__ catches: a    *)
(* raise of bus.write_byte ends the call and reaches the caller.            *)

\* the raise swallowed while characters are left to write: print goes on
\* with its next statement
Unwind_Swallowed(rest) ==
    IF \E j \in 1..Len(rest) : rest[j].by = "char" THEN rest ELSE <<>>

\* what is left of the call after a bus write has raised
Unwind(rest) == <<>>
\* what the caller of the driver method sees when a bus write has raised
Raised == "OSError"
\* the handle kept whatever the outcome of LCD1602(...)
LcdAfter_Always(name, res, old) == IF name = "init" THEN "LCD1602" ELSE old

\* WeighingMachine.lcd after LCD1602(...) ended with outcome res
LcdAfter(name, res, old) == IF name = "init" /\ res = "ok" THEN "LCD1602" ELSE old

----------------------------------------------------------------------------
(* The peripheral.  The expander holds the last word written to it; a bus  *)
(* write that raises does not reach it.  The controller latches the upper  *)
(* four bits on the expander when the enable bit goes from high to low.    *)
(* After power-on it is in 8-bit mode and takes every latched word as a    *)
(* command; the function-set nibble 0x2 puts it in 4-bit mode, where two   *)
(* latched nibbles make one byte, high nibble first.                       *)

RsBit(v) == v % 2
EnBit(v) == (v \div 4) % 2
BlBit(v) == (v \div 8) % 2
Upper(v) == v - (v % 16)

\* four:  the controller is in 4-bit mode
\* n:     nibbles latched since the 4-bit-mode switch, modulo 2
\* en:    enable bit on the expander
\* up:    upper four bits on the expander while the controller is in 8-bit
\*        mode (0 in 4-bit mode, where the framing does not depend on them)
\* bl:    backlight bit (0x08 or 0x00) of the last word written, -1 when
\*        no word has been written
\* src:   the caller (1 or 2) whose word is on the expander with enable
\*        high, 0 when enable is low
\* hi:    the caller whose nibble is held as the high nibble of the byte
\*        being received, 0 when no nibble is held
\* mixed: the last byte received took its two nibbles from different callers
PowerOn ==
    [four |-> FALSE, n |-> 0, en |-> 0, up |-> 0, bl |-> -1,
     src |-> 0, hi |-> 0, mixed |-> FALSE]

\* the peripheral after caller who has written word w
CtlAfter(c, w, who) ==
    LET latch == c.en = 1 /\ EnBit(w) = 0
        four  == c.four \/ (latch /\ c.up = LCD_FUNCTION_SET)
    IN  [four  |-> four,
         n     |-> IF c.four /\ latch THEN 1 - c.n ELSE c.n,
         en    |-> EnBit(w),
         up    |-> IF four THEN 0 ELSE Upper(w),
         bl    |-> BlBit(w) * LCD_BACKLIGHT,
         src   |-> IF EnBit(w) = 1 THEN who ELSE 0,
         hi    |-> IF c.four /\ latch
                   THEN (IF c.n = 0 THEN c.src ELSE 0)
                   ELSE c.hi,
         mixed |-> IF c.four /\ latch /\ c.n = 1
                   THEN c.hi # c.src
                   ELSE c.mixed]

----------------------------------------------------------------------------
(* State before main() runs. *)

\* WeighingMachine.run() has not been called
NotRunning ==
    [pc |-> "new", w |-> 0, looped |-> FALSE, cleared |-> FALSE,
     exc |-> "none", why |-> "none"]

\* weighing_machine_webhook.py as distributed: webhook off
WEBHOOK_ENABLED == FALSE

\* clock units in a second: one unit is UPDATE_INTERVAL = 0.5 s
UnitsPerSecond == 2
UPDATE_INTERVAL == UnitsPerSecond \div 2
SEND_INTERVAL == 5 * UnitsPerSecond
\* requests.post(..., timeout=5)
PostTimeout == 5 * UnitsPerSecond
\* time.time() when the process starts: long after the epoch
StartTime == 2 * SEND_INTERVAL

\* WeighingMachineWithWebhook.__init__ with the webhook switch as given:
\* last_webhook_time = 0, webhook_counter = 0.
\* now: the reading of time.time(); attempts: requests made; outcome: how
\* the last one ended; posted: the clock when it was made; gap: the time
\* between the last two
HookStart(enabled) ==
    [enabled |-> enabled, pc |-> "new", now |-> StartTime, current_time |-> 0,
     last_webhook_time |-> 0, webhook_counter |-> 0,
     attempts |-> 0, outcome |-> "none", posted |-> 0, gap |-> 0]

InitDisplay ==
    /\ address = 0
    /\ backlight = 0
    /\ lcd = "None"
    /\ op = NoOp
    /\ result = "none"
    /\ todo = <<>>
    /\ bus = <<>>
    /\ since = [us |-> 0, clr |-> FALSE, ph |-> 0]
    /\ ctl = PowerOn
    /\ other = [todo |-> <<>>, overlap |-> FALSE]
    /\ run = NotRunning

Init ==
    /\ InitDisplay
    /\ hook = HookStart(WEBHOOK_ENABLED)

\* begin a driver call whose statements are stmts
Begin(call, stmts) ==
    /\ op' = call
    /\ result' = "running"
    /\ todo' = Numbered(stmts)
    /\ bus' = <<>>
    /\ other' = [other EXCEPT !.overlap = @ \/ other.todo # <<>>]
    /\ UNCHANGED <<ctl, run, hook>>

\* a driver call that raises before any statement touches the bus
Fail(call, exc) ==
    /\ op' = call
    /\ result' = exc
    /\ todo' = <<>>
    /\ bus' = <<>>
    /\ UNCHANGED <<ctl, other, run, hook>>

Idle == lcd = "LCD1602" /\ result = "idle"

\* the caller has the outcome of the call (its return or its exception) and
\* goes on; a caller without a display handle has nothing to go on with
CallerContinues ==
    /\ lcd = "LCD1602"
    /\ result \in {"ok", "OSError", "IndexError"}
    /\ result' = "idle"
    /\ op' = NoOp
    /\ bus' = <<>>
    /\ UNCHANGED <<address, backlight, lcd, todo, since, ctl, other, run, hook>>

\* WeighingMachine.initialize_hardware: LCD1602(address, bus), bus opened
Construct(a) ==
    /\ result = "none"
    /\ address' = a
    /\ backlight' = LCD_BACKLIGHT
    /\ Begin(Call("init", <<>>, 0, 0), init)
    /\ UNCHANGED <<lcd, since>>

\* LCD1602(address, bus) when smbus2.SMBus(bus) raises
ConstructOpenFails(a) ==
    /\ result = "none"
    /\ address' = a
    /\ Fail(Call("init", <<>>, 0, 0), Raised)
    /\ UNCHANGED <<backlight, lcd, since>>

\* clear() that turns the backlight field back on
CallClear_ResetsBacklight ==
    /\ Idle
    /\ backlight' = LCD_BACKLIGHT
    /\ Begin(Call("clear", <<>>, 0, 0), clear)
    /\ UNCHANGED <<address, lcd, since>>

CallClear ==
    /\ Idle
    /\ Begin(Call("clear", <<>>, 0, 0), clear)
    /\ UNCHANGED <<address, backlight, lcd, since>>

CallSetCursor(col, row) ==
    /\ Idle
    /\ IF PyIndexOk(row_offsets, row)
       THEN Begin(Call("set_cursor", <<>>, col, row), set_cursor(col, row))
       ELSE Fail(Call("set_cursor", <<>>, col, row), "IndexError")
    /\ UNCHANGED <<address, backlight, lcd, since>>

CallPrint(text, col, row) ==
    /\ Idle
    /\ IF PyIndexOk(row_offsets, row)
       THEN Begin(Call("print", text, col, row), print(text, col, row))
       ELSE Fail(Call("print", text, col, row), "IndexError")
    /\ UNCHANGED <<address, backlight, lcd, since>>

\* LCD1602._write_byte(data, mode) called directly
CallWriteByte(data, mode) ==
    /\ Idle
    /\ Begin(CallByte(data, mode), write_byte(data, mode, "byte"))
    /\ UNCHANGED <<address, backlight, lcd, since>>

CallBacklightOn ==
    /\ Idle
    /\ backlight' = LCD_BACKLIGHT
    /\ Begin(Call("backlight_on", <<>>, 0, 0), backlight_write)
    /\ UNCHANGED <<address, lcd, since>>

CallBacklightOff ==
    /\ Idle
    /\ backlight' = 0
    /\ Begin(Call("backlight_off", <<>>, 0, 0), backlight_write)
    /\ UNCHANGED <<address, lcd, since>>

\* the record of one bus.write_byte(self.address, word)
Event(m, ok) ==
    [a |-> address, v |-> BusWord(m.d, m.ph, backlight), ok |-> ok,
     gap |-> since.us, clr |-> since.clr, pph |-> since.ph,
     by |-> m.by, half |-> m.half, ph |-> m.ph, i |-> m.i]

\* the call returns when its last statement has run
Return(rest) ==
    IF rest = <<>>
    THEN /\ result' = "ok"
         /\ lcd' = LcdAfter(op.name, "ok", lcd)
    ELSE UNCHANGED <<result, lcd>>

\* bus.write_byte succeeds
StepWrite ==
    /\ todo # <<>>
    /\ Head(todo).k = "w"
    /\ bus' = Append(bus, Event(Head(todo), TRUE))
    /\ since' = [us |-> 0,
                 clr |-> Head(todo).by = "clear" /\ Head(todo).half = 2
                         /\ Head(todo).ph = 3,
                 ph |-> Head(todo).ph]
    /\ ctl' = CtlAfter(ctl, BusWord(Head(todo).d, Head(todo).ph, backlight), 1)
    /\ todo' = Tail(todo)
    /\ Return(Tail(todo))
    /\ UNCHANGED <<address, backlight, op, other, run, hook>>

\* bus.write_byte raises
StepWriteFails ==
    /\ todo # <<>>
    /\ Head(todo).k = "w"
    /\ bus' = Append(bus, Event(Head(todo), FALSE))
    /\ since' = [us |-> 0, clr |-> FALSE, ph |-> 0]
    /\ todo' = Unwind(Tail(todo))
    /\ IF todo' = <<>>
       THEN /\ result' = Raised
            /\ lcd' = LcdAfter(op.name, Raised, lcd)
       ELSE UNCHANGED <<result, lcd>>
    /\ UNCHANGED <<address, backlight, op, ctl, other, run, hook>>

\* time.sleep
StepSleep ==
    /\ todo # <<>>
    /\ Head(todo).k = "s"
    /\ since' = [since EXCEPT !.us = @ + Head(todo).d]
    /\ todo' = Tail(todo)
    /\ Return(Tail(todo))
    /\ UNCHANGED <<address, backlight, op, bus, ctl, other, run, hook>>

Next ==
    \/ \E a \in Addresses : Construct(a)
    \/ \E a \in Addresses : ConstructOpenFails(a)
    \/ CallerContinues
    \/ CallClear
    \/ \E col \in Cols, row \in Rows : CallSetCursor(col, row)
    \/ \E x \in PrintArgs : CallPrint(x[1], x[2], x[3])
    \/ CallBacklightOn
    \/ CallBacklightOff
    \/ StepWrite
    \/ StepWriteFails
    \/ StepSleep

Spec == Init /\ [][Next]_vars

\* the driver with _write_byte called directly, for every byte and mode
NextByte ==
    \/ Construct(LCD_I2C_ADDRESS)
    \/ CallerContinues
    \/ \E data \in Bytes256, mode \in Modes : CallWriteByte(data, mode)
    \/ StepWrite
    \/ StepWriteFails
    \/ StepSleep

SpecByte == Init /\ [][NextByte]_vars

----------------------------------------------------------------------------
(* Two callers on one LCD1602 object.  The driver holds no lock, so the     *)
(* statements of a call of the second caller may run between any two        *)
(* statements of a call of the first; both use the object's fields.         *)

\* the cells the two callers address
TwoCells == {<<15, 1>>}
\* the text the two callers print
TwoText == <<75>>

\* the second caller enters a LCD1602 method whose statements are stmts
OtherBegin(stmts) ==
    /\ other.todo = <<>>
    /\ other' = [todo |-> Numbered(stmts),
                 overlap |-> other.overlap \/ result = "running"]
    /\ UNCHANGED <<address, backlight, lcd, op, result, todo, bus, since, ctl,
                   run, hook>>

OtherCallsClear ==
    /\ lcd = "LCD1602"
    /\ OtherBegin(clear)

OtherCallsSetCursor(col, row) ==
    /\ lcd = "LCD1602"
    /\ PyIndexOk(row_offsets, row)
    /\ OtherBegin(set_cursor(col, row))

OtherCallsPrint(text, col, row) ==
    /\ lcd = "LCD1602"
    /\ PyIndexOk(row_offsets, row)
    /\ OtherBegin(print(text, col, row))

\* bus.write_byte of the second caller succeeds
OtherStepWrite ==
    /\ other.todo # <<>>
    /\ Head(other.todo).k = "w"
    /\ ctl' = CtlAfter(ctl, BusWord(Head(other.todo).d, Head(other.todo).ph,
                                    backlight), 2)
    /\ other' = [other EXCEPT !.todo = Tail(@)]
    /\ UNCHANGED <<address, backlight, lcd, op, result, todo, bus, since,
                   run, hook>>

\* bus.write_byte of the second caller raises
OtherStepWriteFails ==
    /\ other.todo # <<>>
    /\ Head(other.todo).k = "w"
    /\ other' = [other EXCEPT !.todo = Unwind(Tail(@))]
    /\ UNCHANGED <<address, backlight, lcd, op, result, todo, bus, since, ctl,
                   run, hook>>

\* time.sleep of the second caller
OtherStepSleep ==
    /\ other.todo # <<>>
    /\ Head(other.todo).k = "s"
    /\ other' = [other EXCEPT !.todo = Tail(@)]
    /\ UNCHANGED <<address, backlight, lcd, op, result, todo, bus, since, ctl,
                   run, hook>>

NextTwo ==
    \/ Construct(LCD_I2C_ADDRESS)
    \/ CallerContinues
    \/ CallClear
    \/ \E x \in TwoCells : CallSetCursor(x[1], x[2])
    \/ \E x \in TwoCells : CallPrint(TwoText, x[1], x[2])
    \/ StepWrite
    \/ StepWriteFails
    \/ StepSleep
    \/ OtherCallsClear
    \/ \E x \in TwoCells : OtherCallsSetCursor(x[1], x[2])
    \/ \E x \in TwoCells : OtherCallsPrint(TwoText, x[1], x[2])
    \/ OtherStepWrite
    \/ OtherStepWriteFails
    \/ OtherStepSleep

SpecTwo == Init /\ [][NextTwo]_vars

----------------------------------------------------------------------------
(* WeighingMachine: format_weight_display, update_display, run, cleanup.    *)
(* Weights are in tenths of a gram.  Texts are sequences of character       *)
(* codes.                                                                    *)

\* the weights read_weight() returns: negative, below 1000 g, 1000 g and
\* more, up to 100 kg (at or above 1000 g they are whole grams, where the
\* rounding of the format is exact)
Weights == {-5, 123, 9999, 10000, 999990, 1000000}

\* the decimal digits of a natural number
RECURSIVE Digits(_)
Digits(n) == IF n < 10 THEN <<48 + n>> ELSE Digits(n \div 10) \o <<48 + (n % 10)>>

\* f"{x:.1f}" of x = t tenths
Fixed1(t) == Digits(t \div 10) \o <<46, 48 + (t % 10)>>

\* f"{x:.3f}" of x = m thousandths
Fixed3(m) ==
    Digits(m \div 1000)
    \o <<46, 48 + ((m \div 100) % 10), 48 + ((m \div 10) % 10),
          48 + (m % 10)>>

format_weight_display(w) ==
    LET weight_grams == IF w < 0 THEN 0 ELSE w
    IN  IF weight_grams < 1000 * 10
        THEN Fixed1(weight_grams) \o <<103>>
        ELSE Fixed3((weight_grams + 5) \div 10) \o <<107, 103>>

\* str.ljust(width): pads with spaces, never shortens
ljust(str, width) ==
    IF Len(str) >= width THEN str
    ELSE str \o [j \in 1..(width - Len(str)) |-> 32]

\* "Weight Scale    "
TitleLine == <<87, 101, 105, 103, 104, 116, 32, 83, 99, 97, 108, 101, 32, 32, 32, 32>>
\* f"Weight: {weight_str}".ljust(16)
WeightLine(w) == ljust(<<87, 101, 105, 103, 104, 116, 58, 32>> \o format_weight_display(w), 16)
\* "Baby Weight", "Station Ready"
WelcomeLine1 == <<66, 97, 98, 121, 32, 87, 101, 105, 103, 104, 116>>
WelcomeLine2 == <<83, 116, 97, 116, 105, 111, 110, 32, 82, 101, 97, 100, 121>>
\* "System", "Shutdown"
CleanupLine1 == <<83, 121, 115, 116, 101, 109>>
CleanupLine2 == <<83, 104, 117, 116, 100, 111, 119, 110>>

\* the statements of run() inside try, and those of cleanup()
WelcomePcs == {"welcome_clear", "welcome_line1", "welcome_line2", "welcome_sleep"}
LoopPcs == {"read_weight", "title", "weight_line", "tick_sleep"}
TryPcs == WelcomePcs \cup LoopPcs
CleanupPcs ==
    {"cleanup_clear", "cleanup_line1", "cleanup_line2", "cleanup_sleep",
     "backlight_off"}
ClearPcs == {"welcome_clear", "cleanup_clear"}
UpdatePcs == {"title", "weight_line"}
PrintPcs ==
    {"welcome_line1", "welcome_line2", "title", "weight_line",
     "cleanup_line1", "cleanup_line2"}
SleepPcs == {"welcome_sleep", "tick_sleep", "cleanup_sleep"}

\* the statement that follows pc when pc completes
AfterPc(pc) ==
    CASE pc = "new" -> "welcome_clear"
      [] pc = "welcome_clear" -> "welcome_line1"
      [] pc = "welcome_line1" -> "welcome_line2"
      [] pc = "welcome_line2" -> "welcome_sleep"
      [] pc = "welcome_sleep" -> "read_weight"
      [] pc = "read_weight" -> "title"
      [] pc = "title" -> "weight_line"
      [] pc = "weight_line" -> "tick_sleep"
      [] pc = "tick_sleep" -> "read_weight"
      [] pc = "cleanup_clear" -> "cleanup_line1"
      [] pc = "cleanup_line1" -> "cleanup_line2"
      [] pc = "cleanup_line2" -> "cleanup_sleep"
      [] pc = "cleanup_sleep" -> "backlight_off"
      [] pc = "backlight_off" -> "exit"

\* the text and the row of the print at pc
PrintAt(pc, w) ==
    CASE pc = "welcome_line1" -> [text |-> WelcomeLine1, row |-> 0]
      [] pc = "welcome_line2" -> [text |-> WelcomeLine2, row |-> 1]
      [] pc = "title" -> [text |-> TitleLine, row |-> 0]
      [] pc = "weight_line" -> [text |-> WeightLine(w), row |-> 1]
      [] pc = "cleanup_line1" -> [text |-> CleanupLine1, row |-> 0]
      [] pc = "cleanup_line2" -> [text |-> CleanupLine2, row |-> 1]

\* the duration of the time.sleep at pc
SleepAt(pc) ==
    CASE pc = "welcome_sleep" -> 2000000
      [] pc = "tick_sleep" -> 500000
      [] pc = "cleanup_sleep" -> 1000000

\* whether a clear() has returned since the last print of update_display
\* began, after the statement at pc has completed (ok) or was abandoned
ClearedAfter(pc, ok, old) ==
    IF pc \in UpdatePcs THEN FALSE
    ELSE IF pc \in ClearPcs /\ ok THEN TRUE
    ELSE old

\* machine.run() is called once WeighingMachine() has returned
RunStarts ==
    /\ run.pc = "new"
    /\ lcd = "LCD1602" /\ result = "ok"
    /\ run' = [run EXCEPT !.pc = AfterPc("new")]
    /\ result' = "idle"
    /\ UNCHANGED <<address, backlight, lcd, op, todo, bus, since, ctl, other, hook>>

\* self.lcd.clear() in run() and cleanup()
RunClears ==
    /\ run.pc \in ClearPcs
    /\ result = "idle"
    /\ Begin(Call("clear", <<>>, 0, 0), clear)
    /\ UNCHANGED <<address, backlight, lcd, since>>

\* self.lcd.print(...) in run(), update_display() and cleanup()
RunPrints ==
    /\ run.pc \in PrintPcs
    /\ result = "idle"
    /\ LET p == PrintAt(run.pc, run.w)
       IN  Begin(Call("print", p.text, 0, p.row), print(p.text, 0, p.row))
    /\ UNCHANGED <<address, backlight, lcd, since>>

\* self.lcd.backlight_off() in cleanup()
CleanupBacklightOff ==
    /\ run.pc = "backlight_off"
    /\ result = "idle"
    /\ backlight' = 0
    /\ Begin(Call("backlight_off", <<>>, 0, 0), backlight_write)
    /\ UNCHANGED <<address, lcd, since>>

\* the driver call at run.pc has returned; after backlight_off() cleanup()
\* returns, and run() returns or the pending exception goes on to main()
RunGoesOn ==
    /\ run.pc \in ClearPcs \cup PrintPcs \cup {"backlight_off"}
    /\ result = "ok"
    /\ result' = "idle"
    /\ run' = [run EXCEPT
                 !.pc = AfterPc(run.pc),
                 !.cleared = ClearedAfter(run.pc, TRUE, @),
                 !.why = IF run.pc # "backlight_off" THEN @
                         ELSE IF run.exc = "KeyboardInterrupt" THEN "returned"
                         ELSE "raised"]
    /\ UNCHANGED <<address, backlight, lcd, op, todo, bus, since, ctl, other, hook>>

\* time.sleep in run() and cleanup()
RunSleeps ==
    /\ run.pc \in SleepPcs
    /\ result = "idle"
    /\ since' = [since EXCEPT !.us = @ + SleepAt(run.pc)]
    /\ run' = [run EXCEPT !.pc = AfterPc(run.pc)]
    /\ UNCHANGED <<address, backlight, lcd, op, result, todo, bus, ctl, other, hook>>

\* total_weight, sensor_weights = self.read_weight()
RunReadsWeight(w) ==
    /\ run.pc = "read_weight"
    /\ result = "idle"
    /\ run' = [run EXCEPT !.pc = AfterPc(run.pc), !.w = w, !.looped = TRUE]
    /\ UNCHANGED <<address, backlight, lcd, op, result, todo, bus, since, ctl,
                   other, hook>>

\* an exception ends the try block: finally calls cleanup()
EntersCleanup(exc) ==
    /\ run' = [run EXCEPT
                 !.pc = "cleanup_clear", !.w = 0, !.exc = exc,
                 !.looped = @ \/ run.pc \in LoopPcs,
                 !.cleared = ClearedAfter(run.pc, FALSE, @)]
    /\ result' = "idle"
    /\ op' = NoOp
    /\ todo' = <<>>
    /\ bus' = <<>>
    /\ UNCHANGED <<address, backlight, lcd, since, ctl, other, hook>>

\* read_weight() raises (a sensor error)
RunReadFails ==
    /\ run.pc = "read_weight"
    /\ result = "idle"
    /\ EntersCleanup("Exception")

\* a driver call of the try block has raised
RunDisplayFails ==
    /\ run.pc \in TryPcs
    /\ result = "OSError"
    /\ EntersCleanup("Exception")

\* KeyboardInterrupt is raised in the try block, between any two statements
\* of run() or of the driver call in progress
KeyboardInterrupt ==
    /\ run.pc \in TryPcs
    /\ result \in {"idle", "running", "ok"}
    /\ EntersCleanup("KeyboardInterrupt")

\* cleanup() is left by an exception: the process ends
LeavesCleanup(why) ==
    /\ run' = [run EXCEPT !.pc = "exit", !.why = why]
    /\ result' = "idle"
    /\ op' = NoOp
    /\ todo' = <<>>
    /\ bus' = <<>>
    /\ UNCHANGED <<address, backlight, lcd, since, ctl, other, hook>>

\* a driver call of cleanup() has raised
CleanupFails ==
    /\ run.pc \in CleanupPcs
    /\ result = "OSError"
    /\ LeavesCleanup("cleanup_raised")

\* KeyboardInterrupt is raised while cleanup() runs
CleanupInterrupted ==
    /\ run.pc \in CleanupPcs
    /\ result \in {"idle", "running", "ok"}
    /\ LeavesCleanup("interrupted")

NextRun ==
    \/ Construct(LCD_I2C_ADDRESS)
    \/ RunStarts
    \/ RunClears
    \/ RunPrints
    \/ CleanupBacklightOff
    \/ RunGoesOn
    \/ RunSleeps
    \/ \E w \in Weights : RunReadsWeight(w)
    \/ RunReadFails
    \/ RunDisplayFails
    \/ KeyboardInterrupt
    \/ CleanupFails
    \/ CleanupInterrupted
    \/ StepWrite
    \/ StepWriteFails
    \/ StepSleep

SpecRun == Init /\ [][NextRun]_vars

----------------------------------------------------------------------------
(* WeighingMachineWithWebhook.run and send_webhook.  The display and the    *)
(* sensors are as above; here one loop iteration reads the clock, reads the *)
(* weight and updates the display, sends the webhook when it is due, and    *)
(* sleeps.  Clock readings and durations are in units of UPDATE_INTERVAL.   *)

\* how long read_weight() and update_display() take together
WorkTimes == {0, UPDATE_INTERVAL}
\* how long requests.post takes when it does not time out
PostTimes == {0, UPDATE_INTERVAL}
\* how a transmission ends: HTTP 200, another status, or an exception
Outcomes == {"200", "500", "Timeout", "RequestException"}

\* machine.run() is called; the welcome message is shown
HookRunStarts ==
    /\ hook.pc = "new"
    /\ hook' = [hook EXCEPT !.pc = "top"]
    /\ UNCHANGED <<address, backlight, lcd, op, result, todo, bus, since, ctl,
                   other, run>>

\* current_time = time.time()
LoopTop ==
    /\ hook.pc = "top"
    /\ hook' = [hook EXCEPT !.pc = "work", !.current_time = hook.now]
    /\ UNCHANGED <<address, backlight, lcd, op, result, todo, bus, since, ctl,
                   other, run>>

\* self.read_weight(); self.update_display(total_weight)
ReadAndUpdate(d) ==
    /\ hook.pc = "work"
    /\ hook.now + d <= MaxTime
    /\ hook' = [hook EXCEPT !.pc = "check", !.now = @ + d]
    /\ UNCHANGED <<address, backlight, lcd, op, result, todo, bus, since, ctl,
                   other, run>>

\* the webhook is disabled or not yet due
NoWebhookDue ==
    /\ hook.pc = "check"
    /\ ~(hook.enabled
         /\ hook.current_time - hook.last_webhook_time >= SEND_INTERVAL)
    /\ hook' = [hook EXCEPT !.pc = "sleep"]
    /\ UNCHANGED <<address, backlight, lcd, op, result, todo, bus, since, ctl,
                   other, run>>

\* how long the request takes, given how it ends
PostTime(outcome, d) == IF outcome = "Timeout" THEN PostTimeout ELSE d

\* the attempt is recorded as made only when it succeeded
send_webhook_StampOnSuccess(h, outcome, d) ==
    [h EXCEPT
        !.webhook_counter = IF outcome = "200" THEN @ + 1 ELSE @,
        !.last_webhook_time = IF outcome = "200" THEN h.current_time ELSE @,
        !.now = @ + PostTime(outcome, d),
        !.attempts = @ + 1,
        !.outcome = outcome,
        !.posted = h.now,
        !.gap = h.now - h.posted]

\* self.send_webhook(...); self.last_webhook_time = current_time
send_webhook(h, outcome, d) ==
    [h EXCEPT
        !.webhook_counter = IF outcome = "200" THEN @ + 1 ELSE @,
        !.last_webhook_time = h.current_time,
        !.now = @ + PostTime(outcome, d),
        !.attempts = @ + 1,
        !.outcome = outcome,
        !.posted = h.now,
        !.gap = h.now - h.posted]

\* the webhook is due: send_webhook posts the reading, which ends in outcome
SendWebhook(outcome, d) ==
    /\ hook.pc = "check"
    /\ hook.enabled
    /\ hook.current_time - hook.last_webhook_time >= SEND_INTERVAL
    /\ hook.now + PostTime(outcome, d) <= MaxTime
    /\ hook' = [send_webhook(hook, outcome, d) EXCEPT !.pc = "sleep"]
    /\ UNCHANGED <<address, backlight, lcd, op, result, todo, bus, since, ctl,
                   other, run>>

\* time.sleep(UPDATE_INTERVAL)
TickSleep ==
    /\ hook.pc = "sleep"
    /\ hook.now + UPDATE_INTERVAL <= MaxTime
    /\ hook' = [hook EXCEPT !.pc = "top", !.now = @ + UPDATE_INTERVAL]
    /\ UNCHANGED <<address, backlight, lcd, op, result, todo, bus, since, ctl,
                   other, run>>

\* KeyboardInterrupt, or an exception of read_weight() or update_display(),
\* ends the loop
HookLoopEnds ==
    /\ hook.pc \in {"top", "work", "check", "sleep"}
    /\ hook' = [hook EXCEPT !.pc = "stopped"]
    /\ UNCHANGED <<address, backlight, lcd, op, result, todo, bus, since, ctl,
                   other, run>>

InitHook ==
    /\ InitDisplay
    /\ \E enabled \in BOOLEAN : hook = HookStart(enabled)

NextHook ==
    \/ HookRunStarts
    \/ LoopTop
    \/ \E d \in WorkTimes : ReadAndUpdate(d)
    \/ NoWebhookDue
    \/ \E outcome \in Outcomes, d \in PostTimes : SendWebhook(outcome, d)
    \/ TickSleep
    \/ HookLoopEnds

SpecHook == InitHook /\ [][NextHook]_vars

----------------------------------------------------------------------------
(* What the write log shows: the bits of a bus word, and the nibbles and     *)
(* bytes the controller takes from it.  The controller latches the upper    *)
(* four bits and the register-select bit of the word on the bus when the    *)
(* enable bit goes from high to low, and in 4-bit mode takes two latched    *)
(* nibbles as one byte, high nibble first.                                   *)

FallingEdge(log, i) ==
    /\ log[i - 1].ok /\ log[i].ok
    /\ EnBit(log[i - 1].v) = 1 /\ EnBit(log[i].v) = 0

RECURSIVE LatchedFrom(_, _)
LatchedFrom(log, i) ==
    IF i > Len(log) THEN <<>>
    ELSE (IF FallingEdge(log, i) THEN <<log[i - 1].v>> ELSE <<>>)
         \o LatchedFrom(log, i + 1)

\* the words latched by the controller, in order
Latched(log) == LatchedFrom(log, 2)

\* the bytes made of the latched words taken in pairs
PairedBytes(nibs) ==
    [j \in 1..(Len(nibs) \div 2) |->
        [b |-> Upper(nibs[2 * j - 1]) + Upper(nibs[2 * j]) \div 16,
         m |-> RsBit(nibs[2 * j - 1])]]

BusBytes == PairedBytes(Latched(bus))

Writes == 1..Len(bus)
SomeWriteFailed == \E i \in Writes : ~bus[i].ok
Returned == result \in {"ok", "OSError", "IndexError"}
ValidCursor(col, row) == col \in 0..15 /\ row \in 0..1

\* the set-DDRAM-address command of the cell (col, row)
AddressCommand(col, row) == [b |-> 128 + row * 64 + col, m |-> 0]
\* the data bytes of the character codes of text
CharBytes(text) == [j \in 1..Len(text) |-> [b |-> text[j], m |-> 1]]

----------------------------------------------------------------------------
(* Claims. *)

\* C1: every word written to the bus, the three writes of every enable
\* pulse included, carries the backlight bit (0x08) of the backlight state
\* last set by backlight_on()/backlight_off() (on after initialization).
C1_BacklightBitInEveryWrite ==
    \A i \in Writes : BlBit(bus[i].v) * 8 = backlight

\* C1 witness: a print completed after backlight_off()
C1_PrintAfterBacklightOff ==
    /\ op.name = "print" /\ result = "ok"
    /\ backlight = 0 /\ Len(bus) >= 12

\* C2: for col in 0..15 and row in 0..1, set_cursor(col, row) issues exactly
\* one byte write, in command mode, of value 0x80 | (row*0x40 + col).
C2_SetCursorAddress ==
    (op.name = "set_cursor" /\ ValidCursor(op.col, op.row) /\ result = "ok")
    => /\ Len(bus) = 6
       /\ \A i \in Writes : RsBit(bus[i].v) = 0
       /\ BusBytes = <<AddressCommand(op.col, op.row)>>

\* C2 witness: set_cursor(15, 1) has returned
C2_CursorLastCell ==
    /\ op.name = "set_cursor" /\ op.col = 15 /\ op.row = 1
    /\ result = "ok"

\* C3: for (col, row) outside col in 0..15, row in 0..1, set_cursor(col, row)
\* signals a contract violation and issues no bus write (stated for calls
\* during which no bus write fails).
C3_OutOfRangeRejected ==
    (/\ op.name = "set_cursor" /\ ~ValidCursor(op.col, op.row)
     /\ Returned /\ ~SomeWriteFailed)
    => (result = "IndexError" /\ bus = <<>>)

\* C4: for every text and valid (col, row), print(text, col, row) issues the
\* set-DDRAM-address command of (col, row), then len(text) data-mode bytes,
\* the i-th being the code of the i-th character, and no other write.
C4_PrintSequence ==
    (op.name = "print" /\ ValidCursor(op.col, op.row) /\ result = "ok")
    => /\ BusBytes = <<AddressCommand(op.col, op.row)>> \o CharBytes(op.text)
       /\ Len(bus) = 6 * (1 + Len(op.text))

\* The sequence C4 describes, for the texts whose character codes all fit a
\* byte (0..255).
PrintSequenceOfByteCodes ==
    (/\ op.name = "print" /\ ValidCursor(op.col, op.row) /\ result = "ok"
     /\ \A j \in 1..Len(op.text) : op.text[j] \in 0..255)
    => /\ BusBytes = <<AddressCommand(op.col, op.row)>> \o CharBytes(op.text)
       /\ Len(bus) = 6 * (1 + Len(op.text))

\* C5 as stated: print("Weight: 12.3kg", 0, 1) on a display at 0x27
\* produces exactly 16 nibble pairs, one per character.
C5_SixteenNibblePairs ==
    (/\ op.name = "print" /\ op.text = ScenarioText /\ op.col = 0 /\ op.row = 1
     /\ address = 39 /\ result = "ok")
    => Len(SelectSeq(BusBytes, LAMBDA y : y.m = 1)) = 16

\* the six words of the byte write of character code c with backlight bit bl
CharWords(c, bl) ==
    LET hi == (c \div 16) * 16 + 1 + bl
        lo == (c % 16) * 16 + 1 + bl
    IN  <<hi, hi + 4, hi, lo, lo + 4, lo>>

\* C5 amended: print("Weight: 12.3kg", 0, 1) on a display at 0x27 produces
\* one command nibble pair addressing DDRAM 0x40 and then exactly 14
\* data-mode nibble pairs, one per character, every word being the
\* character's nibble with the data-mode bit and the current backlight bit,
\* and every bus write goes to address 0x27.
C5_ScenarioWrites ==
    (/\ op.name = "print" /\ op.text = ScenarioText /\ op.col = 0 /\ op.row = 1
     /\ address = 39 /\ result = "ok")
    => /\ Len(bus) = 6 * 15
       /\ BusBytes = <<[b |-> 128 + 64, m |-> 0]>> \o CharBytes(ScenarioText)
       /\ Len(SelectSeq(BusBytes, LAMBDA y : y.m = 1)) = 14
       /\ \A j \in 1..14 : \A n \in 1..6 :
            bus[6 * j + n].v = CharWords(ScenarioText[j], backlight)[n]
       /\ \A i \in Writes : bus[i].a = 39

\* C5 witness: the scenario's print has returned
C5_ScenarioPrinted ==
    /\ op.name = "print" /\ op.text = ScenarioText /\ op.col = 0 /\ op.row = 1
    /\ address = 39 /\ result = "ok"

\* C6: at least 1.52 ms pass between the last bus write of a clear-display
\* command and the next bus write, in initialization and in every clear()
\* call, and clear() does not return before that time has passed.
C6_ClearDelay ==
    /\ \A i \in Writes : bus[i].clr => bus[i].gap >= 1520
    /\ (since.clr /\ result # "running") => since.us >= 1520

\* C6 witness: the first write of a clear() that follows a clear()
C6_ClearAfterClear ==
    /\ op.name = "clear" /\ Len(bus) >= 1
    /\ bus[1].clr

\* C7: for every byte b and either mode, the upper four bits of the first
\* and of the second nibble word of the byte write give b back:
\* high | (low >> 4) = b (the two parts share no bit, so | is +).
C7_NibbleRoundTrip ==
    (op.name = "_write_byte" /\ result = "ok")
    => /\ Len(bus) = 6
       /\ Upper(bus[1].v) + Upper(bus[4].v) \div 16 = op.data
       /\ \A i \in Writes : RsBit(bus[i].v) = op.mode

\* C7 witness: _write_byte(0xA5, 1) has returned
C7_ByteWritten ==
    /\ op.name = "_write_byte" /\ op.data = 165 /\ op.mode = 1
    /\ result = "ok"

\* C8: backlight_on() sets the backlight state on and then does exactly one
\* bus write, of the byte 0x08; backlight_off() sets it off and does exactly
\* one bus write, of 0x00; neither issues an enable pulse or another write.
C8_BacklightCalls ==
    /\ op.name = "backlight_on" => backlight = 8
    /\ op.name = "backlight_off" => backlight = 0
    /\ op.name \in {"backlight_on", "backlight_off"}
       => /\ Len(bus) <= 1
          /\ Returned => Len(bus) = 1
          /\ \A i \in Writes : bus[i].v = backlight

\* C8 witness: backlight_off() has returned
C8_BacklightOffDone ==
    /\ op.name = "backlight_off" /\ result = "ok"
    /\ Len(bus) = 1

\* C9: a bus write that fails during initialization is the last write of
\* the initialization and is attempted once, the failure reaches the
\* caller, and the machine's lcd stays unset, so that no call is ever made
\* on the display.
C9_InitFailureIsFatal ==
    /\ (op.name = "init" /\ (SomeWriteFailed \/ result = "OSError"))
       => /\ result = "OSError"
          /\ todo = <<>>
          /\ lcd = "None"
          /\ \A i \in Writes : ~bus[i].ok => i = Len(bus)
          /\ \A i, j \in Writes : bus[i].i = bus[j].i => i = j
    /\ lcd = "None" => op.name \in {"none", "init"}

\* C9 witness: the tenth bus write of the initialization has failed
C9_InitFailedMidway ==
    /\ op.name = "init" /\ Len(bus) = 10
    /\ ~bus[10].ok

\* C10: a bus write that fails during print() or clear() is reported to
\* the caller and is the last write of the call; no write of the call is
\* attempted twice.
C10_NoRetry ==
    op.name \in {"print", "clear"}
    => /\ \A i, j \in Writes : bus[i].i = bus[j].i => i = j
       /\ SomeWriteFailed
          => /\ result = "OSError"
             /\ todo = <<>>
             /\ \A i \in Writes : ~bus[i].ok => i = Len(bus)

\* C10 witness: the eighth bus write of a print has failed
C10_PrintFailedMidway ==
    /\ op.name = "print" /\ Len(bus) = 8
    /\ ~bus[8].ok

\* C11: when a bus write fails inside print() or clear(), the call has
\* either sent no nibble to the controller, or it has changed no character
\* cell (no character byte and no clear command has been received) and has
\* left no half-received byte in the controller.
C11_FailedCallLeavesDisplay ==
    (op.name \in {"print", "clear"} /\ SomeWriteFailed)
    => \/ Latched(bus) = <<>>
       \/ /\ Len(Latched(bus)) % 2 = 0
          /\ \A j \in 1..Len(BusBytes) :
                BusBytes[j].m = 0 /\ BusBytes[j].b # LCD_CLEAR

\* C12: print() of a text with a character whose code is above 255 fails
\* and writes no character byte (stated for calls during which no bus
\* write fails).
C12_UnsupportedGlyphRejected ==
    (/\ op.name = "print" /\ \E j \in 1..Len(op.text) : op.text[j] > 255
     /\ Returned /\ ~SomeWriteFailed)
    => /\ result # "ok"
       /\ \A j \in 1..Len(BusBytes) : BusBytes[j].m = 0

\* the 36 bus words of the initialization with the backlight on: three
\* nibbles 0x3, the nibble 0x2, then 0x28, 0x0C, 0x01, 0x06 as nibble pairs
InitWords ==
    <<56, 60, 56,  56, 60, 56,  56, 60, 56,  40, 44, 40,
      40, 44, 40,  136, 140, 136,
      8, 12, 8,  200, 204, 200,
      8, 12, 8,  24, 28, 24,
      8, 12, 8,  104, 108, 104>>

\* C13: initialization writes three function-set nibbles 0x3, the 4-bit
\* mode nibble 0x2, then the command bytes 0x28, 0x0C, 0x01, 0x06, in this
\* order, nothing omitted, added or reordered; no character data is written
\* and no public operation runs before the end of the sequence.
C13_InitSequence ==
    op.name = "init"
    => /\ Len(bus) <= 36
       /\ \A i \in Writes : bus[i].v = InitWords[i]
       /\ \A i \in Writes : RsBit(bus[i].v) = 0
       /\ result = "running" => lcd = "None"
       /\ result = "ok"
          => /\ Len(bus) = 36
             /\ Len(Latched(bus)) = 12
             /\ [j \in 1..4 |-> Upper(Latched(bus)[j])] = <<48, 48, 48, 32>>
             /\ PairedBytes(SubSeq(Latched(bus), 5, 12))
                = <<[b |-> 40, m |-> 0], [b |-> 12, m |-> 0],
                    [b |-> 1, m |-> 0], [b |-> 6, m |-> 0]>>

\* C13 witness: the initialization has returned
C13_InitDone ==
    /\ op.name = "init" /\ result = "ok"
    /\ lcd = "LCD1602"

\* the byte set_cursor sends for (col, row), row a valid Python index of
\* row_offsets: 0x80 | x kept to eight bits, for x = col + offset >= -128
CursorByte(col, row) ==
    LET x == col + (IF row \in {0, -2} THEN 0 ELSE 64)
    IN  IF x < 0 THEN x % 256 ELSE 128 + x

\* C14: every nibble write is three consecutive bus words that are equal
\* but for the enable bit, which is low, high, low; at least 100 us pass
\* between the enable-high word and the enable-low word, and at least
\* 100 us between that enable-low word and the next bus word of the driver,
\* in this call or the next.
C14_EnablePulse ==
    /\ op.name \in {"init", "clear", "set_cursor", "print"}
       => \A i \in Writes :
            /\ i % 3 = 1 => EnBit(bus[i].v) = 0
            /\ i % 3 = 2 => bus[i].v = bus[i - 1].v + 4
            /\ i % 3 = 0 => (bus[i].v = bus[i - 2].v /\ bus[i].gap >= 100)
    /\ \A i \in Writes :
         bus[i].pph \in {2, 3} => bus[i].gap >= 100

\* C14 witness: a set_cursor that follows a completed nibble write has
\* returned
C14_NibbleAfterNibble ==
    /\ op.name = "set_cursor" /\ result = "ok"
    /\ bus[1].pph = 3

\* the bytes the current call sends with _write_byte, and the number of
\* bus words that precede them
CallBytes ==
    CASE op.name = "clear" -> <<[b |-> 1, m |-> 0]>>
      [] op.name = "set_cursor" -> <<[b |-> CursorByte(op.col, op.row), m |-> 0]>>
      [] op.name = "print" ->
            <<[b |-> CursorByte(op.col, op.row), m |-> 0]>>
            \o [j \in 1..Len(op.text) |-> [b |-> op.text[j] % 256, m |-> 1]]
      [] op.name = "init" ->
            <<[b |-> 40, m |-> 0], [b |-> 12, m |-> 0],
              [b |-> 1, m |-> 0], [b |-> 6, m |-> 0]>>
      [] OTHER -> <<>>
CallBytesOffset == IF op.name = "init" THEN 12 ELSE 0

\* C15: every byte write sends the high nibble (byte & 0xF0) in its first
\* three bus words and the low nibble ((byte << 4) & 0xF0) in the next
\* three, all six with the same mode bit: 0 for clear, set_cursor and the
\* initialization commands, 1 for the character codes of print.
C15_HighThenLowSameMode ==
    op.name \in {"clear", "set_cursor", "print", "init"}
    => /\ Len(bus) <= CallBytesOffset + 6 * Len(CallBytes)
       /\ \A i \in Writes : i <= CallBytesOffset => RsBit(bus[i].v) = 0
       /\ \A k \in 1..Len(CallBytes) : \A n \in 1..6 :
            LET i == CallBytesOffset + 6 * (k - 1) + n
            IN  i <= Len(bus)
                => /\ RsBit(bus[i].v) = CallBytes[k].m
                   /\ Upper(bus[i].v)
                      = (IF n <= 3 THEN CallBytes[k].b \div 16
                                   ELSE CallBytes[k].b % 16) * 16

\* C15 witness: a print of two characters has returned
C15_TwoCharactersPrinted ==
    /\ op.name = "print" /\ Len(op.text) = 2
    /\ result = "ok"

\* C16: in the handshake at least 4.1 ms pass between the end of the first
\* function-set nibble write (its last enable hold) and the first bus word
\* of the second, at least 100 us between the second and the third, and
\* nothing but the enable hold between the third and the 4-bit-mode nibble.
C16_HandshakeDelays ==
    op.name = "init"
    => /\ Len(bus) >= 4 => bus[4].gap - 100 >= 4100
       /\ Len(bus) >= 7 => bus[7].gap - 100 >= 100
       /\ Len(bus) >= 10 => bus[10].gap - 100 = 0

\* C16 witness: the 4-bit-mode nibble is being written
C16_FourBitNibbleStarted ==
    /\ op.name = "init" /\ Len(bus) = 10
    /\ bus[10].ok

\* C17: once the controller is in 4-bit mode, at the return of the
\* initialization and of every clear, set_cursor, print, backlight_on and
\* backlight_off call that completes without a bus failure, the number of
\* nibbles latched since the 4-bit-mode switch is even.
C17_PairedNibblesAtReturn ==
    (ctl.four /\ result = "ok" /\ ~SomeWriteFailed) => ctl.n = 0

\* C18: between calls, and after a backlight_on() or backlight_off() whose
\* bus write failed, the backlight field equals the backlight bit of the
\* last word actually written to the peripheral.
C18_BacklightStateIsLastWritten ==
    (lcd = "LCD1602" /\ result # "running") => backlight = ctl.bl

\* C19: the controller receives a byte whose two nibbles come from
\* different callers only if calls of the two callers have overlapped;
\* while all calls are made one after the other no such byte is received.
C19_MixedByteOnlyWhenInterleaved ==
    ctl.mixed => other.overlap

\* C20: a step of clear(), set_cursor() or print(), failing or not, leaves
\* backlight and address unchanged; backlight changes only where
\* backlight_on(), backlight_off() or the initialization starts, and the
\* address only where the initialization starts.
C20_BacklightAndAddressFrame ==
    [][/\ (op.name \in {"clear", "set_cursor", "print"}
           \/ op'.name \in {"clear", "set_cursor", "print"})
          => (backlight' = backlight /\ address' = address)
       /\ backlight' # backlight
          => (op'.name \in {"init", "backlight_on", "backlight_off"}
              /\ op' # op)
       /\ address' # address => (op'.name = "init" /\ op' # op)]_vars

\* C20 witness: a print has failed while the backlight is off
C20_PrintFailedBacklightOff ==
    /\ op.name = "print" /\ result = "OSError"
    /\ backlight = 0

\* C21: when run() leaves its try block after the polling loop has begun
\* (KeyboardInterrupt or any other exception) and no bus write of the
\* teardown fails, then at the exit of the process a clear() has returned
\* after the last print of update_display, the last bus write is the single
\* write 0x00 of backlight_off(), and the backlight field is off.
C21_TornDownAtExit ==
    (run.pc = "exit" /\ run.looped /\ run.why # "cleanup_raised")
    => /\ run.cleared
       /\ op.name = "backlight_off"
       /\ Len(bus) = 1 /\ bus[1].ok /\ bus[1].v = 0
       /\ backlight = 0

\* C22: each of the two prints of update_display starts at column 0 and
\* writes exactly 16 characters, none past column 15, for every weight;
\* a negative weight is shown as 0, a weight below 1000 g in grams and any
\* other in kilograms.
C22_UpdateWritesSixteenCells ==
    (run.pc \in UpdatePcs /\ op.name = "print" /\ result = "ok")
    => /\ op.col = 0
       /\ Len(op.text) = 16
       /\ Len(SelectSeq(BusBytes, LAMBDA y : y.m = 1)) = 16
       /\ \A j \in 1..Len(op.text) : op.col + j - 1 <= 15
       /\ run.pc = "weight_line"
          => /\ run.w < 0 => op.text = WeightLine(0)
             /\ (\E j \in 1..Len(op.text) : op.text[j] = 107)
                <=> run.w >= 1000 * 10

====
